---- MODULE Spec2Model ----
(***************************************************************************)
(* Model of the MEPS settlement-file parser (src/meps_parser.py).          *)
(*                                                                         *)
(* Text is modelled as sequences of one-character strings, so that the     *)
(* fixed-offset slicing, trimming and digit conversion of the decoders are *)
(* computed as the code computes them.  Decimal values are exact and are   *)
(* represented as an integer number of hundredths (Decimal('0.01') = 1).   *)
(* Python integers built from long digit strings (the derived ids) are     *)
(* represented by their canonical digit sequence.                          *)
(* An optional value (None or an object) is a sequence of length 0 or 1.   *)
(* The `datetime` provenance field (wall-clock time of the parse) is not   *)
(* carried in the records.                                                 *)
(***************************************************************************)
EXTENDS Integers, Sequences, FiniteSets, TLC

\* Greatest number of lines read from one input stream.
MaxLines == 4

----------------------------------------------------------------------------
(* Python string primitives *)

Min(a, b) == IF a < b THEN a ELSE b

Abs(x) == IF x < 0 THEN -x ELSE x

\* line[a:b] for 0 <= a <= b: out-of-range bounds are clamped, never an error.
Slice(s, a, b) == SubSeq(s, a + 1, Min(b, Len(s)))

IsSpace(c) == c \in {" ", "\n", "\t", "\r"}

RECURSIVE LStrip(_)
LStrip(s) == IF Len(s) > 0 /\ IsSpace(s[1]) THEN LStrip(Tail(s)) ELSE s

RECURSIVE RStrip(_)
RStrip(s) ==
    IF Len(s) > 0 /\ IsSpace(s[Len(s)]) THEN RStrip(SubSeq(s, 1, Len(s) - 1)) ELSE s

\* str.strip()
Strip(s) == LStrip(RStrip(s))

DigitChars == <<"0", "1", "2", "3", "4", "5", "6", "7", "8", "9">>

IsDigit(c) == \E d \in 1..10 : DigitChars[d] = c

DigitOf(c) == (CHOOSE d \in 1..10 : DigitChars[d] = c) - 1

IsDigits(s) == Len(s) > 0 /\ \A i \in 1..Len(s) : IsDigit(s[i])

RECURSIVE NatOf(_)
NatOf(s) ==
    IF Len(s) = 0 THEN 0
    ELSE NatOf(SubSeq(s, 1, Len(s) - 1)) * 10 + DigitOf(s[Len(s)])

RECURSIVE DropZeros(_)
DropZeros(s) == IF Len(s) > 1 /\ s[1] = "0" THEN DropZeros(Tail(s)) ELSE s

RECURSIVE Pow10(_)
Pow10(n) == IF n = 0 THEN 1 ELSE 10 * Pow10(n - 1)

\* str.split(sep): the pieces between the separators.
RECURSIVE Split(_, _)
Split(s, sep) ==
    IF \E i \in 1..Len(s) : s[i] = sep
    THEN LET i == CHOOSE k \in 1..Len(s) :
                      s[k] = sep /\ \A j \in 1..(k - 1) : s[j] # sep
         IN  <<SubSeq(s, 1, i - 1)>> \o Split(SubSeq(s, i + 1, Len(s)), sep)
    ELSE <<s>>

\* os.path.basename: what follows the last "/".
Basename(s) == LET parts == Split(s, "/") IN parts[Len(parts)]

\* Path(file_path).stem: the final path component without its last suffix.
Stem(path) ==
    LET name == Basename(path)
        dots == {i \in 2..Len(name) : name[i] = "."}
    IN  IF dots = {} \/ name[Len(name)] = "." THEN name
        ELSE LET i == CHOOSE k \in dots : \A j \in dots : j <= k
             IN  SubSeq(name, 1, i - 1)

----------------------------------------------------------------------------
(* Exceptions and results of operations that may raise *)

MEPSErrorClasses == {"MEPSError", "MEPSValidationError", "MEPSParsingError"}

IsMEPSError(cls) == cls \in MEPSErrorClasses

\* An exception object: class, message head, 1-based line number the message
\* names (0 if none), and the exception being handled when it was raised.
Exc(cls, msg, line, context) ==
    [cls |-> cls, msg |-> msg, line |-> line, context |-> context]

Ok(v) == [ok |-> TRUE, val |-> <<v>>, exc |-> <<>>]

Raise(e) == [ok |-> FALSE, val |-> <<>>, exc |-> <<e>>]

\* Mutation: `except Exception: raise`, every exception passed on as it is.
ErrorContext_Reraise(context, r) == r

\* with self._error_context(context): body
ErrorContext(context, r) ==
    IF r.ok THEN r
    ELSE IF IsMEPSError(r.exc[1].cls) THEN r
    ELSE Raise(Exc("MEPSParsingError", <<"Error in", context>>, 0, r.exc))

\* int(s) for text over digits, letters, blanks and "_": surrounding
\* whitespace is ignored, single "_" may separate digits, anything else is a
\* ValueError.  The value is kept as its canonical digit sequence.
PyInt(s) ==
    LET t == Strip(s)
        wellFormed ==
            /\ Len(t) > 0
            /\ \A i \in 1..Len(t) : IsDigit(t[i]) \/ t[i] = "_"
            /\ IsDigit(t[1]) /\ IsDigit(t[Len(t)])
            /\ \A i \in 1..(Len(t) - 1) : ~(t[i] = "_" /\ t[i + 1] = "_")
    IN  IF wellFormed THEN Ok(DropZeros(SelectSeq(t, IsDigit)))
        ELSE Raise(Exc("ValueError", <<"invalid literal for int()">>, 0, <<>>))

DefaultDecimalPlaces == 2

\* self._parse_decimal: for field text over digits, letters and blanks,
\* Decimal() accepts exactly the non-empty digit strings.  The quotient is
\* exact; decimal values are held in hundredths.
ParseDecimal(value, decimal_places) ==
    IF IsDigits(Strip(value))
    THEN Ok(NatOf(Strip(value)) * Pow10(2 - decimal_places))
    ELSE Raise(Exc("MEPSValidationError", <<"Invalid decimal value">>, 0, <<>>))

\* TerminalType.from_code: the body returns its argument and raises nothing.
FromCode(code) == Ok(code)

TerminalTypeCodes == {"A", "B", "E", "I", "L", "M", "N"}

----------------------------------------------------------------------------
(* Record decoders *)

MEPS == <<"M", "E", "P", "S">>

\* MEPSHeader.__init__ followed by __post_init__; Decimal(self.taxaiva) of a
\* value that is already a Decimal cannot fail.
MEPSHeader(h) ==
    IF h.tipreg # <<"0">>
    THEN Raise(Exc("MEPSValidationError", <<"Invalid header record type">>, 0, <<>>))
    ELSE IF h.fich # MEPS
    THEN Raise(Exc("MEPSValidationError", <<"Invalid file type">>, 0, <<>>))
    ELSE Ok(h)

ParseHeader(line, filename) ==
    ErrorContext("header parsing",
        LET id      == PyInt(Slice(line, 21, 32) \o Slice(line, 46, 51))
            taxaiva == ParseDecimal(Slice(line, 54, 57), DefaultDecimalPlaces)
        IN  IF ~id.ok THEN id
            ELSE IF ~taxaiva.ok THEN taxaiva
            ELSE MEPSHeader([id         |-> id.val[1],
                             tipreg     |-> Slice(line, 0, 1),
                             fich       |-> Strip(Slice(line, 1, 5)),
                             idinstori  |-> Strip(Slice(line, 5, 13)),
                             idinstdes  |-> Strip(Slice(line, 13, 21)),
                             idfich     |-> Strip(Slice(line, 21, 32)),
                             idfichant  |-> Strip(Slice(line, 32, 43)),
                             entidade   |-> Strip(Slice(line, 46, 51)),
                             codmoeda   |-> Strip(Slice(line, 51, 54)),
                             taxaiva    |-> taxaiva.val[1],
                             idfichedst |-> Strip(Slice(line, 57, 68)),
                             filename   |-> Basename(filename)]))

RevisionTwoLength == 103

\* Mutation: the comparison made strict.
Version_Strict(line) == IF Len(Strip(line)) > RevisionTwoLength THEN 2 ELSE 1

\* version = 2 if len(line.strip()) >= 103 else 1
Version(line) == IF Len(Strip(line)) >= RevisionTwoLength THEN 2 ELSE 1

\* The version-specific update of the detail's fields.
DetailFields(line, version) ==
    IF version = 1
    THEN [tarifaps   |-> ParseDecimal(Slice(line, 39, 44), DefaultDecimalPlaces),
          tipoterm   |-> FromCode(Strip(Slice(line, 44, 45))),
          idterminal |-> Strip(Slice(line, 45, 55)),
          identranps |-> Strip(Slice(line, 55, 60)),
          locmorter  |-> Strip(Slice(line, 60, 75)),
          refpag     |-> Strip(Slice(line, 75, 84)),
          modenv     |-> Strip(Slice(line, 84, 85)),
          codresp    |-> Strip(Slice(line, 85, 86)),
          nridresps  |-> Strip(Slice(line, 86, 98))]
    ELSE [tarifaps   |-> ParseDecimal(Slice(line, 39, 49), DefaultDecimalPlaces),
          tipoterm   |-> FromCode(Strip(Slice(line, 49, 50))),
          idterminal |-> Strip(Slice(line, 50, 60)),
          identranps |-> Strip(Slice(line, 60, 65)),
          locmorter  |-> Strip(Slice(line, 65, 80)),
          refpag     |-> Strip(Slice(line, 80, 89)),
          modenv     |-> Strip(Slice(line, 89, 90)),
          codresp    |-> Strip(Slice(line, 90, 91)),
          nridresps  |-> Strip(Slice(line, 91, 103))]

ParseDetail(line, filename) ==
    ErrorContext("detail parsing",
        LET version  == Version(line)
            id       == PyInt(Slice(line, 3, 7) \o Slice(line, 7, 15))
            montpgps == ParseDecimal(Slice(line, 29, 39), DefaultDecimalPlaces)
            f        == DetailFields(line, version)
        IN  IF ~id.ok THEN id
            ELSE IF ~montpgps.ok THEN montpgps
            ELSE IF ~f.tarifaps.ok THEN f.tarifaps
            ELSE IF ~f.tipoterm.ok THEN f.tipoterm
            ELSE Ok([id         |-> id.val[1],
                     tipreg     |-> Slice(line, 0, 1),
                     codproc    |-> Strip(Slice(line, 1, 3)),
                     idlog      |-> Strip(Slice(line, 3, 7)),
                     nrlog      |-> Strip(Slice(line, 7, 15)),
                     dthora     |-> Strip(Slice(line, 15, 29)),
                     montpgps   |-> montpgps.val[1],
                     tarifaps   |-> f.tarifaps.val[1],
                     tipoterm   |-> f.tipoterm.val[1],
                     idterminal |-> f.idterminal,
                     identranps |-> f.identranps,
                     locmorter  |-> f.locmorter,
                     refpag     |-> f.refpag,
                     modenv     |-> f.modenv,
                     codresp    |-> f.codresp,
                     nridresps  |-> f.nridresps,
                     version    |-> version,
                     filename   |-> Basename(filename)]))

\* re.sub("^.*MEPS_|_.*$", "", filename): drop everything up to the last
\* "MEPS_", then everything from the next "_" on.
Entidade(filename) ==
    LET tag  == MEPS \o <<"_">>
        at   == {p \in 1..Len(filename) : SubSeq(filename, p, Min(p + 4, Len(filename))) = tag}
        rest == IF at = {} THEN filename
                ELSE LET p == CHOOSE q \in at : \A r \in at : r <= q
                     IN  SubSeq(filename, p + 5, Len(filename))
    IN  Split(rest, "_")[1]

\* re.sub("^.*_(\d{14})_.*$", r"\1", filename): the last run of exactly 14
\* digits that stands between two "_", or the filename itself if there is none.
FilenameDt(filename) ==
    LET parts == Split(filename, "_")
        at    == {i \in 2..(Len(parts) - 1) : Len(parts[i]) = 14 /\ IsDigits(parts[i])}
    IN  IF at = {} THEN filename
        ELSE parts[CHOOSE i \in at : \A j \in at : j <= i]

ParseTrailer(line, filename) ==
    ErrorContext("trailer parsing",
        LET filename_parts == Split(filename, "_")
        IN  IF Len(filename_parts) < 2
            THEN Raise(Exc("IndexError", <<"list index out of range">>, 0, <<>>))
            ELSE
            LET entidade_number == PyInt(filename_parts[2])
                id        == PyInt(FilenameDt(filename) \o entidade_number.val[1])
                totreg    == PyInt(Strip(Slice(line, 1, 9)))
                montranps == ParseDecimal(Slice(line, 9, 25), DefaultDecimalPlaces)
                tottarps  == ParseDecimal(Slice(line, 25, 37), DefaultDecimalPlaces)
                valiva    == ParseDecimal(Slice(line, 37, 49), DefaultDecimalPlaces)
            IN  IF ~entidade_number.ok THEN entidade_number
                ELSE IF ~id.ok THEN id
                ELSE IF ~totreg.ok THEN totreg
                ELSE IF ~montranps.ok THEN montranps
                ELSE IF ~tottarps.ok THEN tottarps
                ELSE IF ~valiva.ok THEN valiva
                ELSE Ok([id        |-> id.val[1],
                         tipreg    |-> Slice(line, 0, 1),
                         totreg    |-> NatOf(totreg.val[1]),
                         montranps |-> montranps.val[1],
                         tottarps  |-> tottarps.val[1],
                         valiva    |-> valiva.val[1],
                         entidade  |-> Entidade(filename),
                         filename  |-> filename]))

----------------------------------------------------------------------------
(* File validation and the result aggregate *)

\* Decimal('0.01'), in hundredths.
Tolerance == 1

RECURSIVE SumMontpgps(_)
SumMontpgps(ds) == IF Len(ds) = 0 THEN 0 ELSE ds[1].montpgps + SumMontpgps(Tail(ds))

RECURSIVE SumTarifaps(_)
SumTarifaps(ds) == IF Len(ds) = 0 THEN 0 ELSE ds[1].tarifaps + SumTarifaps(Tail(ds))

\* Mutation: `if self.details is None`, which no list satisfies.
NoDetails_IsNone(ds) == FALSE

\* if not self.details
NoDetails(ds) == Len(ds) = 0

\* Mutation: only a surplus of records is reported.
CountMismatch_Surplus(ds, t) == Len(ds) > t.totreg

\* if len(self.details) != self.trailer.totreg
CountMismatch(ds, t) == Len(ds) # t.totreg

\* Mutation: the abs() dropped from the comparison.
AmountMismatch_Signed(ds, t) ==
    LET expected_montranps == SumMontpgps(ds) - SumTarifaps(ds)
    IN  expected_montranps - t.montranps > Tolerance

\* if abs(expected_montranps - self.trailer.montranps) > Decimal('0.01')
AmountMismatch(ds, t) ==
    LET expected_montranps == SumMontpgps(ds) - SumTarifaps(ds)
    IN  Abs(expected_montranps - t.montranps) > Tolerance

\* if abs(total_tarifaps - self.trailer.tottarps) > Decimal('0.01')
FeeMismatch(ds, t) == Abs(SumTarifaps(ds) - t.tottarps) > Tolerance

ValidationError(msg) == Raise(Exc("MEPSValidationError", <<msg>>, 0, <<>>))

\* Mutation: the record count compared before the detail list is tested.
ValidateFile_CountFirst(h, ds, t) ==
    ErrorContext("file validation",
        IF Len(h) = 0 THEN ValidationError("Missing header record")
        ELSE IF Len(t) = 0 THEN ValidationError("Missing trailer record")
        ELSE IF CountMismatch(ds, t[1]) THEN ValidationError("Record count mismatch")
        ELSE IF NoDetails(ds) THEN ValidationError("No detail records found")
        ELSE IF AmountMismatch(ds, t[1]) THEN ValidationError("Amount mismatch")
        ELSE IF FeeMismatch(ds, t[1]) THEN ValidationError("Fee mismatch")
        ELSE Ok(TRUE))

\* self._validate_file(): h and t are the optional header and trailer.
ValidateFile(h, ds, t) ==
    ErrorContext("file validation",
        IF Len(h) = 0 THEN ValidationError("Missing header record")
        ELSE IF Len(t) = 0 THEN ValidationError("Missing trailer record")
        ELSE IF NoDetails(ds) THEN ValidationError("No detail records found")
        ELSE IF CountMismatch(ds, t[1]) THEN ValidationError("Record count mismatch")
        ELSE IF AmountMismatch(ds, t[1]) THEN ValidationError("Amount mismatch")
        ELSE IF FeeMismatch(ds, t[1]) THEN ValidationError("Fee mismatch")
        ELSE Ok(TRUE))

\* MEPSFile(header=..., details=..., trailer=...): the optional header and
\* trailer as the parser holds them.
MEPSFile(h, ds, t) == [header |-> h, details |-> ds, trailer |-> t]

----------------------------------------------------------------------------
(* The per-line step of parse_file *)

\* The if/elif chain on record_type = line[0:1].
DecodeLine(line, filename) ==
    LET record_type == Slice(line, 0, 1)
    IN  IF record_type = <<"0">> THEN ParseHeader(line, filename)
        ELSE IF record_type = <<"2">> THEN ParseDetail(line, filename)
        ELSE IF record_type = <<"9">> THEN ParseTrailer(line, filename)
        ELSE Raise(Exc("MEPSValidationError", <<"Invalid record type">>, 0, <<>>))

\* except Exception as e: raise MEPSParsingError(f"Error on line {line_number}: ...")
LineGuard(r, line_number) ==
    IF r.ok THEN r
    ELSE Raise(Exc("MEPSParsingError", <<"Error on line">>, line_number, r.exc))

\* Mutation: self.details.insert(0, d)
AppendDetail_Front(ds, d) == <<d>> \o ds

\* self.details.append(d)
AppendDetail(ds, d) == Append(ds, d)

----------------------------------------------------------------------------
(* Inputs: file paths and the lines an input stream may deliver *)

Rep(c, n) == [i \in 1..n |-> c]

\* The number n as w digits, zero-padded on the left.
RECURSIVE ZPad(_, _)
ZPad(n, w) == IF w = 0 THEN <<>> ELSE ZPad(n \div 10, w - 1) \o <<DigitChars[(n % 10) + 1]>>

Stamp == ZPad(2024, 4) \o ZPad(1027, 4) \o ZPad(11323, 6)

\* "files/MEPS_00029_20241027011323_1", the path main.py passes.
GoodPath ==
    <<"f", "i", "l", "e", "s", "/">> \o MEPS \o <<"_">> \o ZPad(29, 5)
        \o <<"_">> \o Stamp \o <<"_", "1">>

\* "in/data.txt": a name without the entity and timestamp parts.
PlainPath == <<"i", "n", "/", "d", "a", "t", "a", ".", "t", "x", "t">>

FilePaths == {GoodPath, PlainPath}

\* Header layout of parse_header: columns [0:68] and the line terminator.
HeaderLine(fich, idfich, vat) ==
    <<"0">> \o fich \o ZPad(11, 8) \o ZPad(22, 8) \o idfich \o ZPad(1026, 11)
        \o Rep(" ", 3) \o ZPad(29, 5) \o <<"1", "3", "2">> \o vat \o ZPad(1028, 11)
        \o <<"\n">>

\* The fields after the fee and terminal type, 53 columns in both revisions.
DetailRest(nridresps) ==
    ZPad(77, 10) \o ZPad(5, 5) \o <<"P", "R", "A", "I", "A">> \o Rep(" ", 10)
        \o ZPad(123, 9) \o <<"1", "0">> \o nridresps

\* Revision-1 layout of parse_detail: 98 columns, then `tail`.
DetailLine1(nrlog, montpgps, tarifaps, tipoterm, tail) ==
    <<"2", "0", "1">> \o ZPad(7, 4) \o ZPad(nrlog, 8) \o Stamp \o montpgps
        \o ZPad(tarifaps, 5) \o <<tipoterm>> \o DetailRest(ZPad(9, 12)) \o tail

\* Revision-2 layout of parse_detail: 103 columns, then the line terminator.
DetailLine2(nrlog, montpgps, tarifaps, tipoterm, nridresps) ==
    <<"2", "0", "1">> \o ZPad(7, 4) \o ZPad(nrlog, 8) \o Stamp \o montpgps
        \o ZPad(tarifaps, 10) \o <<tipoterm>> \o DetailRest(nridresps) \o <<"\n">>

\* Trailer layout of parse_trailer: columns [0:49] and the line terminator.
TrailerLine(totreg, montranps, tottarps) ==
    <<"9">> \o totreg \o ZPad(montranps, 16) \o ZPad(tottarps, 12) \o ZPad(0, 12)
        \o <<"\n">>

HeaderOk     == HeaderLine(MEPS, ZPad(1027, 11), <<"0", "1", "5">>)
HeaderBadTag == HeaderLine(<<"S", "E", "P", "A">>, ZPad(1027, 11), <<"0", "1", "5">>)
HeaderBadVat == HeaderLine(MEPS, ZPad(1027, 11), <<"0", "X", "5">>)
HeaderBadId  == HeaderLine(MEPS, Rep("0", 10) \o <<"X">>, <<"0", "1", "5">>)

\* Revision 1: payment 10.00, fee 0.50, ATM; the 98 columns are followed by
\* blanks up to column 104.
DetailA      == DetailLine1(1, ZPad(1000, 10), 50, "A", Rep(" ", 6) \o <<"\n">>)
\* Revision 2, exactly 103 columns: payment 9.99, fee 0.50, POS.
DetailB      == DetailLine2(2, ZPad(999, 10), 50, "B", ZPad(9, 12))
\* Revision 1: payment 10.10, fee 0.60, terminal type Z.
DetailZ      == DetailLine1(3, ZPad(1010, 10), 60, "Z", <<"\n">>)
\* Payment amount not numeric.
DetailBadAmt == DetailLine1(5, Rep("0", 9) \o <<"X">>, 50, "A", <<"\n">>)

Trailer(totreg, montranps, tottarps) == TrailerLine(ZPad(totreg, 8), montranps, tottarps)

TrailerLines ==
    { Trailer(1, 950, 50),      \* one record, total 9.50, fees 0.50
      Trailer(2, 950, 50),      \* the same totals, two records declared
      Trailer(2, 1900, 100),    \* two records, total 19.00, fees 1.00
      Trailer(0, 0, 0),         \* declares no record
      TrailerLine(Rep("0", 7) \o <<"X">>, 950, 50) }

BlankLine   == <<" ", " ", "\n">>
UnknownLine == <<"5">> \o Rep("0", 20) \o <<"\n">>

Lines ==
    {HeaderOk, HeaderBadTag, HeaderBadVat, HeaderBadId,
     DetailA, DetailB, DetailZ, DetailBadAmt,
     BlankLine, UnknownLine} \cup TrailerLines

----------------------------------------------------------------------------
(* The parser object and one call of parse_file at a time *)

VARIABLES
    pc,         \* "idle" | "open" | "reading" | "returned" | "raised"
    filename,   \* Path(file_path).stem of the call in progress
    lines,      \* the lines the stream has delivered so far
    eof,        \* the for loop over the stream has run to its end
    streamExc,  \* the exception open() or the stream raised, if any
    header,     \* self.header
    details,    \* self.details
    trailer,    \* self.trailer
    result,     \* the MEPSFile returned to the caller, if any
    error       \* the exception delivered to the caller, if any

vars == <<pc, filename, lines, eof, streamExc, header, details, trailer, result, error>>

\* MEPSFileParser(): __init__ calls _reset.
Init ==
    /\ pc = "idle"
    /\ filename = <<>>
    /\ lines = <<>>
    /\ eof = FALSE
    /\ streamExc = <<>>
    /\ header = <<>>
    /\ details = <<>>
    /\ trailer = <<>>
    /\ result = <<>>
    /\ error = <<>>

\* parse_file entry: self._reset() and the filename, before open().
ParseFile(file_path) ==
    /\ pc \in {"idle", "returned", "raised"}
    /\ pc' = "open"
    /\ filename' = Stem(file_path)
    /\ lines' = <<>>
    /\ eof' = FALSE
    /\ streamExc' = <<>>
    /\ header' = <<>>
    /\ details' = <<>>
    /\ trailer' = <<>>
    /\ result' = <<>>
    /\ error' = <<>>

\* An exception leaving the body of `with self._error_context("file parsing")`.
Deliver(r) == ErrorContext("file parsing", r).exc

\* The stream raises exception e (open() or a read): the with-block is left.
StreamFailure(e) ==
    /\ streamExc' = <<e>>
    /\ error' = Deliver(Raise(e))
    /\ pc' = "raised"
    /\ UNCHANGED <<filename, lines, eof, header, details, trailer, result>>

\* open(file_path) fails.
OpenFails ==
    /\ pc = "open"
    /\ StreamFailure(Exc("FileNotFoundError", <<"No such file or directory">>, 0, <<>>))

OpenSucceeds ==
    /\ pc = "open"
    /\ pc' = "reading"
    /\ UNCHANGED <<filename, lines, eof, streamExc, header, details, trailer, result, error>>

\* The stream fails while the for loop asks it for one of its lines.
ReadFails ==
    /\ pc = "reading"
    /\ Len(lines) < MaxLines
    /\ StreamFailure(Exc("UnicodeDecodeError", <<"invalid start byte">>, 0, <<>>))

\* One iteration of the for loop on the next line of the stream.
ProcessLine(line) ==
    /\ pc = "reading"
    /\ Len(lines) < MaxLines
    /\ lines' = Append(lines, line)
    /\ UNCHANGED <<filename, eof, streamExc, result>>
    /\ IF Len(Strip(line)) = 0
       THEN UNCHANGED <<pc, header, details, trailer, error>>
       ELSE LET record_type == Slice(line, 0, 1)
                r == LineGuard(DecodeLine(line, filename), Len(lines) + 1)
            IN  IF r.ok
                THEN /\ header' = IF record_type = <<"0">> THEN r.val ELSE header
                     /\ details' = IF record_type = <<"2">>
                                   THEN AppendDetail(details, r.val[1]) ELSE details
                     /\ trailer' = IF record_type = <<"9">> THEN r.val ELSE trailer
                     /\ UNCHANGED <<pc, error>>
                ELSE /\ error' = Deliver(r)
                     /\ pc' = "raised"
                     /\ UNCHANGED <<header, details, trailer>>

\* The stream is exhausted: _validate_file, then the result is returned.
EndOfInput ==
    /\ pc = "reading"
    /\ eof' = TRUE
    /\ UNCHANGED <<filename, lines, streamExc, header, details, trailer>>
    /\ LET v == ValidateFile(header, details, trailer)
       IN  IF v.ok
           THEN /\ result' = <<MEPSFile(header, details, trailer)>>
                /\ pc' = "returned"
                /\ UNCHANGED error
           ELSE /\ error' = Deliver(v)
                /\ pc' = "raised"
                /\ UNCHANGED result

Next ==
    \/ \E file_path \in FilePaths : ParseFile(file_path)
    \/ OpenFails
    \/ OpenSucceeds
    \/ ReadFails
    \/ \E line \in Lines : ProcessLine(line)
    \/ EndOfInput

Spec == Init /\ [][Next]_vars

----------------------------------------------------------------------------
(* Properties *)

IsDetailLine(l) == Slice(l, 0, 1) = <<"2">>

IsHeaderLine(l) == Slice(l, 0, 1) = <<"0">>

IsTrailerLine(l) == Slice(l, 0, 1) = <<"9">>

IsBlank(l) == Len(Strip(l)) = 0

\* A line of the stream made parse_file raise (it is then the last one read).
LineFailed == pc = "raised" /\ ~eof /\ streamExc = <<>>

\* The lines whose loop iteration completed.
Processed == IF LineFailed THEN SubSeq(lines, 1, Len(lines) - 1) ELSE lines

DetailLinesRead == SelectSeq(Processed, IsDetailLine)

\* Line l fails to classify or decode.
Fails(l) == ~IsBlank(l) /\ ~DecodeLine(l, filename).ok

\* The count the last trailer line of the stream declares in columns [1:9].
DeclaredCount ==
    LET at == {i \in 1..Len(lines) : IsTrailerLine(lines[i])}
        i  == CHOOSE k \in at : \A j \in at : j <= k
    IN  NatOf(Strip(Slice(lines[i], 1, 9)))

RECURSIVE NetSum(_)
NetSum(ds) ==
    IF Len(ds) = 0 THEN 0 ELSE (ds[1].montpgps - ds[1].tarifaps) + NetSum(Tail(ds))

Returned == pc = "returned" /\ Len(result) = 1

\* C1: whenever parse_file returns a result, the number of its detail records
\* equals the trailer's declared count totreg, which is also the number of
\* detail lines of the file; a file whose declared count differs from its
\* number of detail lines yields no result.
C1_CountAgreement ==
    pc = "returned" =>
        /\ Len(result) = 1
        /\ Len(result[1].trailer) = 1
        /\ Len(result[1].details) = result[1].trailer[1].totreg
        /\ Len(SelectSeq(lines, IsDetailLine)) = DeclaredCount

\* A result with two detail records was returned.
C1_Witness == Returned /\ Len(result[1].details) = 2

\* C2: in every returned result the sum of montpgps - tarifaps over the
\* details differs from the trailer's montranps by at most 0.01; a file that
\* passes the presence and count checks with a larger difference fails with
\* the amount-mismatch validation error.
C2_AmountWithinTolerance ==
    /\ pc = "returned" =>
           /\ Len(result) = 1
           /\ Len(result[1].trailer) = 1
           /\ Abs(NetSum(result[1].details) - result[1].trailer[1].montranps) <= 1
    /\ ( /\ pc = "raised" /\ eof
         /\ Len(header) = 1 /\ Len(trailer) = 1 /\ Len(details) > 0
         /\ Len(details) = trailer[1].totreg
         /\ Abs(NetSum(details) - trailer[1].montranps) > 1 )
       => /\ error[1].cls = "MEPSValidationError"
          /\ error[1].msg = <<"Amount mismatch">>

\* A result was returned whose totals differ by exactly 0.01.
C2_Witness ==
    /\ Returned
    /\ Abs(NetSum(result[1].details) - result[1].trailer[1].montranps) = 1

\* C3: no detail record carries a terminal type outside {A,B,E,I,L,M,N}; a
\* detail line with any other terminal-type character fails to decode.
C3_TerminalTypeEnumerated ==
    \A i \in 1..Len(details) :
        \E c \in TerminalTypeCodes : details[i].tipoterm = <<c>>

\* C4: parse_file ends either with a result or with an error, never both;
\* a result is returned only at end of input, when every non-blank line
\* decoded without error and every validator check passed, and it holds a
\* header, a trailer and at least one detail; a line that fails to classify
\* or decode makes parse_file raise as soon as it is read.
C4_NoPartialSuccess ==
    /\ pc = "returned" =>
           /\ Len(result) = 1 /\ error = <<>>
           /\ eof /\ streamExc = <<>>
           /\ \A i \in 1..Len(lines) : ~Fails(lines[i])
           /\ Len(result[1].header) = 1
           /\ Len(result[1].trailer) = 1
           /\ Len(result[1].details) >= 1
           /\ \E i \in 1..Len(lines) : IsHeaderLine(lines[i])
           /\ \E i \in 1..Len(lines) : IsTrailerLine(lines[i])
           /\ \E i \in 1..Len(lines) : IsDetailLine(lines[i])
           /\ Len(result[1].details) = result[1].trailer[1].totreg
           /\ Abs(NetSum(result[1].details) - result[1].trailer[1].montranps) <= 1
           /\ Abs(SumTarifaps(result[1].details) - result[1].trailer[1].tottarps) <= 1
    /\ pc = "raised" => result = <<>> /\ Len(error) = 1
    /\ pc \in {"idle", "open", "reading"} => result = <<>> /\ error = <<>>
    /\ (Len(lines) > 0 /\ Fails(lines[Len(lines)])) => pc = "raised"

\* A result was returned for a stream of MaxLines lines.
C4_Witness == Returned /\ Len(lines) = MaxLines /\ Len(result[1].details) >= 1

\* C5: the revision of a detail record depends on the trimmed length of its
\* line alone: at least 103 gives revision 2, with the fee from [39:49] and
\* the terminal type from [49:50]; anything shorter gives revision 1, with
\* the fee from [39:44] and the terminal type from [44:45].
C5_RevisionByTrimmedLength ==
    LET read == DetailLinesRead
    IN  /\ Len(details) = Len(read)
        /\ \A i \in 1..Len(details) :
             LET l == read[i]
                 trimmed == Len(RStrip(l))
             IN  IF trimmed >= 103
                 THEN /\ details[i].version = 2
                      /\ details[i].tarifaps = NatOf(Slice(l, 39, 49))
                      /\ details[i].tipoterm = Slice(l, 49, 50)
                 ELSE /\ details[i].version = 1
                      /\ details[i].tarifaps = NatOf(Slice(l, 39, 44))
                      /\ details[i].tipoterm = Slice(l, 44, 45)

\* Records of both revisions were decoded, one from a line of exactly 103
\* columns and one from a shorter line padded with blanks beyond column 103.
C5_Witness ==
    /\ Len(details) = Len(DetailLinesRead)
    /\ \E i \in 1..Len(details) :
           details[i].version = 2 /\ Len(Strip(DetailLinesRead[i])) = 103
    /\ \E i \in 1..Len(details) :
           details[i].version = 1 /\ Len(DetailLinesRead[i]) > 103

\* C6: when decoding a line raises a validation error, parse_file delivers a
\* MEPSValidationError to its caller, not a MEPSParsingError.
C6_ValidationErrorUnwrapped ==
    ( /\ LineFailed
      /\ Len(lines) > 0
      /\ DecodeLine(lines[Len(lines)], filename).exc[1].cls = "MEPSValidationError" )
    => error[1].cls = "MEPSValidationError"

\* C7 (as claimed): a failure of the input stream reaches the caller as the original
\* stream error, which is none of the domain error kinds.
C7_StreamErrorAsIs ==
    (pc = "raised" /\ Len(streamExc) = 1)
    => /\ error = streamExc
       /\ ~IsMEPSError(error[1].cls)

\* C7 (amended): a failure of the input stream is caught by the "file
\* parsing" error context: the caller receives a MEPSParsingError naming that
\* context, raised while the original stream error was being handled, and
\* no result.
C7_StreamErrorWrapped ==
    (pc = "raised" /\ Len(streamExc) = 1)
    => /\ Len(error) = 1
       /\ error[1].cls = "MEPSParsingError"
       /\ IsMEPSError(error[1].cls)
       /\ error[1].msg = <<"Error in", "file parsing">>
       /\ error[1].context = streamExc
       /\ ~IsMEPSError(streamExc[1].cls)
       /\ result = <<>>

\* The stream failed after it had delivered a detail line.
C7_Witness ==
    /\ pc = "raised" /\ Len(streamExc) = 1
    /\ streamExc[1].cls = "UnicodeDecodeError"
    /\ Len(details) > 0

ValidatorMessages ==
    {"Missing header record", "Missing trailer record", "No detail records found",
     "Record count mismatch", "Amount mismatch", "Fee mismatch"}

\* The first check that fails, in the order the claim gives.
FirstViolation ==
    IF ~\E i \in 1..Len(lines) : IsHeaderLine(lines[i]) THEN "Missing header record"
    ELSE IF ~\E i \in 1..Len(lines) : IsTrailerLine(lines[i]) THEN "Missing trailer record"
    ELSE IF Len(details) = 0 THEN "No detail records found"
    ELSE IF Len(details) # DeclaredCount THEN "Record count mismatch"
    ELSE IF Abs(NetSum(details) - trailer[1].montranps) > 1 THEN "Amount mismatch"
    ELSE IF Abs(SumTarifaps(details) - trailer[1].tottarps) > 1 THEN "Fee mismatch"
    ELSE "none"

\* C8: the validator's errors arise only once all lines are consumed, and the
\* error raised is the MEPSValidationError of the first failing check in the
\* order missing header, missing trailer, no details, record count, amount,
\* fee; a result is returned only if no check fails.
C8_ValidationOrder ==
    /\ (Len(error) = 1 /\ \E m \in ValidatorMessages : error[1].msg = <<m>>) => eof
    /\ (pc = "raised" /\ eof) =>
           /\ error[1].cls = "MEPSValidationError"
           /\ error[1].msg = <<FirstViolation>>
           /\ error[1].context = <<>>
    /\ pc = "returned" => eof /\ FirstViolation = "none"

\* A header and a trailer declaring a wrong, non-zero count, no detail line:
\* the missing-detail-records error is the one raised.
C8_Witness ==
    /\ pc = "raised" /\ eof
    /\ error[1].msg = <<"No detail records found">>
    /\ Len(trailer) = 1 /\ trailer[1].totreg > 0

\* C9: the accumulated detail sequence is the decoded detail lines in line
\* order: the i-th record comes from the i-th line starting with '2',
\* whatever header, trailer and blank lines stand between them; a returned
\* result carries that sequence.
C9_DetailsInLineOrder ==
    LET read == DetailLinesRead
        n    == Len(Processed)
    IN  /\ Len(details) = Len(read)
        /\ \A i \in 1..Len(details) :
               /\ details[i].tipreg = <<"2">>
               /\ details[i].nrlog = Slice(read[i], 7, 15)
               /\ details[i].montpgps = NatOf(Slice(read[i], 29, 39))
        /\ (n > 0 /\ IsDetailLine(Processed[n])) =>
               LET r == ParseDetail(Processed[n], filename)
               IN  r.ok /\ details[Len(details)] = r.val[1]
        /\ pc = "returned" => result[1].details = details

\* Two different detail lines were read with another line between them.
C9_Witness ==
    \E i, j, k \in 1..Len(Processed) :
        /\ i < j /\ j < k
        /\ IsDetailLine(Processed[i]) /\ IsDetailLine(Processed[k])
        /\ ~IsDetailLine(Processed[j])
        /\ Processed[i] # Processed[k]
        /\ Len(details) >= 2

\* C10: the header's VAT rate is the raw integer value of columns [54:57]
\* (raw "015" gives 15), not that value divided by 100.  Decimal values are
\* held in hundredths, so 15 is held as 1500.
C10_VatRatePlain ==
    (pc = "reading" /\ Len(lines) > 0 /\ IsHeaderLine(lines[Len(lines)]))
    => header[1].taxaiva = 100 * NatOf(Slice(lines[Len(lines)], 54, 57))

====
